---- MODULE Spec2Model ----
(***************************************************************************)
(* Dominator (0dominator.py): subdomain discovery with three external      *)
(* tools run concurrently under a retry wrapper, a crt.sh query with its   *)
(* own retry loop, one httpx liveness probe and a sorted output file.      *)
(*                                                                         *)
(* Text (stdout of a tool, the name_value field of a crt.sh record) is a   *)
(* sequence of one-character strings, so that strip, split and splitlines  *)
(* are computed as Python computes them.                                   *)
(***************************************************************************)
EXTENDS Integers, Sequences, FiniteSets, TLC

(* ---------------- constants of the program ---------------- *)

MAX_RETRIES == 3

BACKOFF_FACTOR == 2

\* the tools list of find_subdomains, in submission order
Tools == <<"subfinder", "assetfinder", "findomain">>

TaskIds == 1..Len(Tools)

(* ---------------- bounds of the model ---------------- *)

\* longest captured stdout of an external process, in characters
MaxOut == 3

\* longest name_value field of a crt.sh record, in characters
MaxName == 2

\* most records in one crt.sh response
MaxRecords == 2

\* characters that occur in the modelled texts
Chars == {"a", "\n"}

\* characters removed by str.strip() among those that can occur
Whitespace == {" ", "\n"}

TextsUpTo(n) == UNION {[1..k -> Chars] : k \in 0..n}

Stdouts == TextsUpTo(MaxOut)

ExitCodes == {0, 1}

\* a crt.sh record either carries name_value or lacks the key
NoKey == <<"<missing>">>

Records == TextsUpTo(MaxName) \cup {NoKey}

Bodies == UNION {[1..k -> Records] : k \in 0..MaxRecords}

(* ---------------- pure functions ---------------- *)

Range(s) == {s[i] : i \in DOMAIN s}

\* str.strip(): drop leading and trailing whitespace
Strip(s) ==
  LET keep == {i \in 1..Len(s) : s[i] \notin Whitespace}
  IN IF keep = {} THEN <<>>
     ELSE LET lo == CHOOSE i \in keep : \A j \in keep : i <= j
              hi == CHOOSE i \in keep : \A j \in keep : j <= i
          IN SubSeq(s, lo, hi)

\* str.split("\n"): always at least one piece, empty pieces kept
RECURSIVE SplitNL(_)
SplitNL(s) ==
  LET nl == {i \in 1..Len(s) : s[i] = "\n"}
  IN IF nl = {} THEN <<s>>
     ELSE LET p == CHOOSE i \in nl : \A j \in nl : i <= j
          IN <<SubSeq(s, 1, p - 1)>> \o SplitNL(SubSeq(s, p + 1, Len(s)))

\* str.splitlines(): like split("\n") but no piece after a final newline,
\* and no piece at all for the empty text
SplitLines(s) ==
  LET p == SplitNL(s)
  IN IF p[Len(p)] = <<>> THEN SubSeq(p, 1, Len(p) - 1) ELSE p

\* run_command: the list returned for an exit status and a captured stdout
run_command(rc, out) ==
  IF rc # 0 THEN <<>> ELSE SplitNL(Strip(out))

\* Python truth value of a list (the test `if result:`)
Truthy(result) == Len(result) > 0

RECURSIVE Pow(_, _)
Pow(b, e) == IF e = 0 THEN 1 ELSE b * Pow(b, e - 1)

\* variant of wait_time with a product in place of the power
wait_timeLinear(attempt) == BACKOFF_FACTOR * attempt

\* time.sleep argument after the failed attempt with 0-based index attempt
wait_time(attempt) == Pow(BACKOFF_FACTOR, attempt)

\* code point order of the modelled characters
Ord(c) == CASE c = "\n" -> 10 [] c = " " -> 32 [] c = "a" -> 97 [] OTHER -> 127

\* Python str comparison a < b
RECURSIVE StrLess(_, _)
StrLess(a, b) ==
  IF b = <<>> THEN FALSE
  ELSE IF a = <<>> THEN TRUE
  ELSE IF a[1] # b[1] THEN Ord(a[1]) < Ord(b[1])
  ELSE StrLess(Tail(a), Tail(b))

\* variant of sorted: the elements in decreasing order
RECURSIVE sortedReverse(_)
sortedReverse(S) ==
  IF S = {} THEN <<>>
  ELSE LET m == CHOOSE x \in S : \A y \in S \ {x} : StrLess(y, x)
       IN <<m>> \o sortedReverse(S \ {m})

\* sorted(set): the elements in increasing order
RECURSIVE sorted(_)
sorted(S) ==
  IF S = {} THEN <<>>
  ELSE LET m == CHOOSE x \in S : \A y \in S \ {x} : StrLess(x, y)
       IN <<m>> \o sorted(S \ {m})

\* classification of what an external tool did in one attempt
Kind(rc, out) ==
  IF rc # 0 THEN "nonzero"
  ELSE IF Strip(out) = <<>> THEN "empty"
  ELSE "lines"

(* ---------------- state ---------------- *)

VARIABLES
  pc,           \* position of the main thread in main()
  error,        \* exception that ended the run, "none" if none
  task,         \* per worker: pc, loop variable attempt, returned result
  hist,         \* per worker: per attempt so far, what the tool did and
                \* the list run_command returned
  slept,        \* per worker: the time.sleep arguments so far
  next,         \* index of the next result the main thread will merge
  subdomains,   \* self.subdomains
  afterFind,    \* self.subdomains as find_subdomains returned it
  crt,          \* query_crtsh: pc, loop variable attempt, returned value,
                \* names taken from the records of the response
  crtHist,      \* what each crt.sh request so far did
  crtSlept,     \* the time.sleep arguments of query_crtsh so far
  live_domains, \* self.live_domains
  probe,        \* httpx invocations: number, last exit status, input names
  file          \* text this run left in <domain>_live_domains.txt, NoFile
                \* while it has not written it

vars == <<pc, error, task, hist, slept, next, subdomains, afterFind,
          crt, crtHist, crtSlept, live_domains, probe, file>>

NoFile == <<"<no file>">>

Idle == [pc |-> "idle", attempt |-> 0, result |-> <<>>]

\* Dominator.__init__ and the start of main()
Init ==
  /\ pc = "find_subdomains"
  /\ error = "none"
  /\ task = [t \in TaskIds |-> Idle]
  /\ hist = [t \in TaskIds |-> <<>>]
  /\ slept = [t \in TaskIds |-> <<>>]
  /\ next = 1
  /\ subdomains = {}
  /\ afterFind = {}
  /\ crt = [pc |-> "idle", attempt |-> 0, result |-> {}, names |-> {}]
  /\ crtHist = <<>>
  /\ crtSlept = <<>>
  /\ live_domains = {}
  /\ probe = [calls |-> 0, rc |-> 0, input |-> {}]
  /\ file = NoFile

(* ---------------- find_subdomains ---------------- *)

\* executor.map: every tool is submitted and gets its own worker thread
Submit ==
  /\ pc = "find_subdomains"
  /\ pc' = "merge"
  /\ task' = [t \in TaskIds |-> [pc |-> "run", attempt |-> 0, result |-> <<>>]]
  /\ UNCHANGED <<error, hist, slept, next, subdomains, afterFind,
                 crt, crtHist, crtSlept, live_domains, probe, file>>

\* variant of ToolAttempt without the early return: a truthy result is
\* kept but the loop goes on to the sleep
ToolAttemptNoReturn(t) ==
  /\ task[t].pc = "run"
  /\ \E rc \in ExitCodes, out \in Stdouts :
       LET result == run_command(rc, out)
       IN /\ hist' = [hist EXCEPT ![t] =
                         Append(@, [kind |-> Kind(rc, out), lines |-> result])]
          /\ task' = [task EXCEPT ![t] = [@ EXCEPT !.pc = "sleep", !.result = result]]
  /\ UNCHANGED <<pc, error, slept, next, subdomains, afterFind,
                 crt, crtHist, crtSlept, live_domains, probe, file>>

\* variant of ToolAttempt in which the worker itself updates
\* self.subdomains with a truthy result
ToolAttemptSharedWrite(t) ==
  /\ task[t].pc = "run"
  /\ \E rc \in ExitCodes, out \in Stdouts :
       LET result == run_command(rc, out)
       IN /\ hist' = [hist EXCEPT ![t] =
                         Append(@, [kind |-> Kind(rc, out), lines |-> result])]
          /\ IF Truthy(result)
             THEN /\ task' = [task EXCEPT ![t] = [@ EXCEPT !.pc = "done", !.result = result]]
                  /\ subdomains' = subdomains \cup Range(result)
             ELSE /\ task' = [task EXCEPT ![t] = [@ EXCEPT !.pc = "sleep"]]
                  /\ UNCHANGED subdomains
  /\ UNCHANGED <<pc, error, slept, next, afterFind,
                 crt, crtHist, crtSlept, live_domains, probe, file>>

\* one iteration of the loop of run_tool_with_retries up to the sleep:
\* run_command, then return the result if it is truthy
ToolAttempt(t) ==
  /\ task[t].pc = "run"
  /\ \E rc \in ExitCodes, out \in Stdouts :
       LET result == run_command(rc, out)
       IN /\ hist' = [hist EXCEPT ![t] =
                         Append(@, [kind |-> Kind(rc, out), lines |-> result])]
          /\ IF Truthy(result)
             THEN task' = [task EXCEPT ![t] = [@ EXCEPT !.pc = "done", !.result = result]]
             ELSE task' = [task EXCEPT ![t] = [@ EXCEPT !.pc = "sleep"]]
  /\ UNCHANGED <<pc, error, slept, next, subdomains, afterFind,
                 crt, crtHist, crtSlept, live_domains, probe, file>>

\* variant of ToolSleep with one attempt counter shared by the workers:
\* the increment also advances every other task that is still running
ToolSleepSharedCounter(t) ==
  /\ task[t].pc = "sleep"
  /\ slept' = [slept EXCEPT ![t] = Append(@, wait_time(task[t].attempt))]
  /\ task' = [u \in TaskIds |->
               IF u = t
               THEN IF task[t].attempt + 1 < MAX_RETRIES
                    THEN [task[t] EXCEPT !.pc = "run", !.attempt = @ + 1]
                    ELSE [task[t] EXCEPT !.pc = "done", !.attempt = @ + 1,
                                         !.result = <<>>]
               ELSE IF task[u].pc \in {"run", "sleep"}
                    THEN [task[u] EXCEPT !.attempt = @ + 1]
                    ELSE task[u]]
  /\ UNCHANGED <<pc, error, hist, next, subdomains, afterFind,
                 crt, crtHist, crtSlept, live_domains, probe, file>>

\* variant of ToolSleep whose loop is one iteration short
ToolSleepOneShort(t) ==
  /\ task[t].pc = "sleep"
  /\ slept' = [slept EXCEPT ![t] = Append(@, wait_time(task[t].attempt))]
  /\ IF task[t].attempt + 1 < MAX_RETRIES - 1
     THEN task' = [task EXCEPT ![t] = [@ EXCEPT !.pc = "run", !.attempt = @ + 1]]
     ELSE task' = [task EXCEPT ![t] = [@ EXCEPT !.pc = "done", !.attempt = @ + 1,
                                                !.result = <<>>]]
  /\ UNCHANGED <<pc, error, hist, next, subdomains, afterFind,
                 crt, crtHist, crtSlept, live_domains, probe, file>>

\* time.sleep(wait_time), then the next iteration, or the final return []
ToolSleep(t) ==
  /\ task[t].pc = "sleep"
  /\ slept' = [slept EXCEPT ![t] = Append(@, wait_time(task[t].attempt))]
  /\ IF task[t].attempt + 1 < MAX_RETRIES
     THEN task' = [task EXCEPT ![t] = [@ EXCEPT !.pc = "run", !.attempt = @ + 1]]
     ELSE task' = [task EXCEPT ![t] = [@ EXCEPT !.pc = "done", !.attempt = @ + 1,
                                                !.result = <<>>]]
  /\ UNCHANGED <<pc, error, hist, next, subdomains, afterFind,
                 crt, crtHist, crtSlept, live_domains, probe, file>>

\* variant of Merge that assigns the result instead of updating with it
MergeAssign ==
  /\ pc = "merge"
  /\ next \in TaskIds
  /\ task[next].pc = "done"
  /\ subdomains' = Range(task[next].result)
  /\ next' = next + 1
  /\ UNCHANGED <<pc, error, task, hist, slept, afterFind,
                 crt, crtHist, crtSlept, live_domains, probe, file>>

\* variant of Merge with symmetric_difference_update in place of update
MergeSymDiff ==
  /\ pc = "merge"
  /\ next \in TaskIds
  /\ task[next].pc = "done"
  /\ subdomains' = (subdomains \ Range(task[next].result))
                     \cup (Range(task[next].result) \ subdomains)
  /\ next' = next + 1
  /\ UNCHANGED <<pc, error, task, hist, slept, afterFind,
                 crt, crtHist, crtSlept, live_domains, probe, file>>

\* for result in results: self.subdomains.update(result); the iterator
\* yields the results in submission order and blocks until each is ready
Merge ==
  /\ pc = "merge"
  /\ next \in TaskIds
  /\ task[next].pc = "done"
  /\ subdomains' = subdomains \cup Range(task[next].result)
  /\ next' = next + 1
  /\ UNCHANGED <<pc, error, task, hist, slept, afterFind,
                 crt, crtHist, crtSlept, live_domains, probe, file>>

\* variant of FindReturn that neither consumes the results nor waits for
\* the workers (shutdown(wait=False))
FindReturnNoWait ==
  /\ pc = "merge"
  /\ pc' = "query_crtsh"
  /\ afterFind' = subdomains
  /\ next' = Len(Tools) + 1
  /\ crt' = [crt EXCEPT !.pc = "run"]
  /\ UNCHANGED <<error, task, hist, slept, subdomains, crtHist, crtSlept,
                 live_domains, probe, file>>

\* end of the with block (shutdown waits for the workers) and return
FindReturn ==
  /\ pc = "merge"
  /\ next = Len(Tools) + 1
  /\ \A t \in TaskIds : task[t].pc = "done"
  /\ pc' = "query_crtsh"
  /\ afterFind' = subdomains
  /\ task' = [t \in TaskIds |-> Idle]
  /\ hist' = [t \in TaskIds |-> <<>>]
  /\ slept' = [t \in TaskIds |-> <<>>]
  /\ crt' = [crt EXCEPT !.pc = "run"]
  /\ UNCHANGED <<error, next, subdomains, crtHist, crtSlept,
                 live_domains, probe, file>>

(* ---------------- query_crtsh ---------------- *)

\* the names of a response body whose records all carry name_value:
\* each name_value split on newlines
RECURSIVE BodyNames(_)
BodyNames(data) ==
  IF data = <<>> THEN {}
  ELSE Range(SplitNL(Head(data))) \cup BodyNames(Tail(data))

\* the records of data before the first one without name_value
RECURSIVE BeforeNoKey(_)
BeforeNoKey(data) ==
  IF data = <<>> \/ Head(data) = NoKey THEN <<>>
  ELSE <<Head(data)>> \o BeforeNoKey(Tail(data))

\* variant of CrtExcept that empties self.subdomains when it gives up
CrtExceptClears(kind) ==
  /\ crtHist' = Append(crtHist, kind)
  /\ IF crt.attempt < MAX_RETRIES - 1
     THEN /\ crt' = [crt EXCEPT !.pc = "sleep"]
          /\ pc' = pc
          /\ UNCHANGED subdomains
     ELSE /\ crt' = [crt EXCEPT !.pc = "done", !.result = {}]
          /\ pc' = "check_live_domains"
          /\ subdomains' = {}
  /\ UNCHANGED error

\* except requests.RequestException: sleep and retry while attempts are
\* left, otherwise log, leave the loop and return set()
CrtExcept(kind) ==
  /\ crtHist' = Append(crtHist, kind)
  /\ IF crt.attempt < MAX_RETRIES - 1
     THEN /\ crt' = [crt EXCEPT !.pc = "sleep"]
          /\ pc' = pc
     ELSE /\ crt' = [crt EXCEPT !.pc = "done", !.result = {}]
          /\ pc' = "check_live_domains"
  /\ UNCHANGED <<error, subdomains>>

\* an exception that no except clause of query_crtsh or main() catches
CrtRaise(kind, exc, names) ==
  /\ crtHist' = Append(crtHist, kind)
  /\ subdomains' = subdomains \cup names
  /\ crt' = [crt EXCEPT !.pc = "raised", !.names = names]
  /\ error' = exc
  /\ pc' = "aborted"

\* variant of CrtReturn that assigns the names of the response to
\* self.subdomains instead of updating it
CrtReturnAssign(kind, names) ==
  /\ crtHist' = Append(crtHist, kind)
  /\ subdomains' = names
  /\ crt' = [crt EXCEPT !.pc = "done", !.result = names, !.names = names]
  /\ pc' = "check_live_domains"
  /\ UNCHANGED error

\* the try block ran to its return statement
CrtReturn(kind, names) ==
  /\ crtHist' = Append(crtHist, kind)
  /\ subdomains' = subdomains \cup names
  /\ crt' = [crt EXCEPT !.pc = "done", !.result = subdomains \cup names,
                         !.names = names]
  /\ pc' = "check_live_domains"
  /\ UNCHANGED error

\* variant of CrtAttempt that handles a response without records like a
\* failed request
CrtAttemptRetryEmpty ==
  /\ pc = "query_crtsh"
  /\ crt.pc = "run"
  /\ \/ CrtExcept("exc")
     \/ \E data \in Bodies :
          IF \E i \in DOMAIN data : data[i] = NoKey
          THEN CrtRaise("nokey", "KeyError", BodyNames(BeforeNoKey(data)))
          ELSE IF data = <<>>
               THEN CrtExcept("norecords")
               ELSE CrtReturn("records", BodyNames(data))
     \/ CrtExcept("badjson")
     \/ CrtRaise("badjson", "ValueError", {})
  /\ UNCHANGED <<task, hist, slept, next, afterFind, crtSlept,
                 live_domains, probe, file>>

\* one iteration of the loop of query_crtsh up to the sleep.  The request
\* raises RequestException (transport error, timeout, status not 2xx), or
\* answers 2xx with a body that is not JSON, or with a list of records.
\* response.json() on a body that is not JSON raises an exception that is
\* a RequestException in some releases of requests and a plain ValueError
\* in others; the source pins no release, so both are possible.
CrtAttempt ==
  /\ pc = "query_crtsh"
  /\ crt.pc = "run"
  /\ \/ CrtExcept("exc")
     \/ \E data \in Bodies :
          IF \E i \in DOMAIN data : data[i] = NoKey
          THEN CrtRaise("nokey", "KeyError", BodyNames(BeforeNoKey(data)))
          ELSE CrtReturn(IF data = <<>> THEN "norecords" ELSE "records",
                         BodyNames(data))
     \/ CrtExcept("badjson")
     \/ CrtRaise("badjson", "ValueError", {})
  /\ UNCHANGED <<task, hist, slept, next, afterFind, crtSlept,
                 live_domains, probe, file>>

\* time.sleep(wait_time), then the next iteration
CrtSleep ==
  /\ pc = "query_crtsh"
  /\ crt.pc = "sleep"
  /\ crtSlept' = Append(crtSlept, wait_time(crt.attempt))
  /\ crt' = [crt EXCEPT !.pc = "run", !.attempt = @ + 1]
  /\ UNCHANGED <<pc, error, task, hist, slept, next, subdomains, afterFind,
                 crtHist, live_domains, probe, file>>

(* ---------------- check_live_domains, save_live_domains ---------------- *)

\* length of "\n".join(S): the names and one separator between neighbours
RECURSIVE JoinLen(_)
JoinLen(S) ==
  IF S = {} THEN 0
  ELSE LET n == CHOOSE x \in S : TRUE
       IN Len(n) + (IF S = {n} THEN 0 ELSE 1 + JoinLen(S \ {n}))

\* what httpx can print for the input it is given: nothing when the input
\* is empty (there is no host to probe), otherwise any text
HttpxStdouts(S) == IF JoinLen(S) = 0 THEN {<<>>} ELSE Stdouts

\* variant of CheckLive that returns without running httpx when
\* self.subdomains is empty
CheckLiveSkipEmpty ==
  /\ pc = "check_live_domains"
  /\ IF subdomains = {}
     THEN UNCHANGED <<probe, live_domains>>
     ELSE \E rc \in ExitCodes, out \in HttpxStdouts(subdomains) :
            /\ probe' = [calls |-> probe.calls + 1, rc |-> rc, input |-> subdomains]
            /\ live_domains' = IF rc = 0
                               THEN live_domains \cup Range(SplitLines(out))
                               ELSE live_domains
  /\ pc' = "save_live_domains"
  /\ UNCHANGED <<error, task, hist, slept, next, subdomains, afterFind,
                 crt, crtHist, crtSlept, file>>

\* variant of CheckLive without the except clause: a nonzero exit status
\* ends the run with CalledProcessError
CheckLiveUncaught ==
  /\ pc = "check_live_domains"
  /\ \E rc \in ExitCodes, out \in HttpxStdouts(subdomains) :
       /\ probe' = [calls |-> probe.calls + 1, rc |-> rc, input |-> subdomains]
       /\ IF rc = 0
          THEN /\ live_domains' = live_domains \cup Range(SplitLines(out))
               /\ pc' = "save_live_domains"
               /\ UNCHANGED error
          ELSE /\ pc' = "aborted"
               /\ error' = "CalledProcessError"
               /\ UNCHANGED live_domains
  /\ UNCHANGED <<task, hist, slept, next, subdomains, afterFind,
                 crt, crtHist, crtSlept, file>>

\* one subprocess.run of httpx on the joined names; lines of its stdout are
\* added to live_domains unless the exit status is nonzero.  The payload is
\* recorded as the set of names joined (set iteration order is not fixed).
CheckLive ==
  /\ pc = "check_live_domains"
  /\ \E rc \in ExitCodes, out \in HttpxStdouts(subdomains) :
       /\ probe' = [calls |-> probe.calls + 1, rc |-> rc, input |-> subdomains]
       /\ live_domains' = IF rc = 0
                          THEN live_domains \cup Range(SplitLines(out))
                          ELSE live_domains
  /\ pc' = "save_live_domains"
  /\ UNCHANGED <<error, task, hist, slept, next, subdomains, afterFind,
                 crt, crtHist, crtSlept, file>>

\* what the file can hold before the run: nothing, or text of an earlier run
PriorFiles == {<<>>, <<"a", "a", "\n">>}

\* open(output_file, "w"): the file is created or truncated
OpenW(prior) == <<>>

\* f.write(live_domain + "\n") for each name of the sequence, in order
RECURSIVE WriteLines(_, _)
WriteLines(text, names) ==
  IF names = <<>> THEN text
  ELSE WriteLines(text \o Head(names) \o <<"\n">>, Tail(names))

\* open(output_file, "w") and one write per sorted name; an OSError is not
\* caught anywhere
SaveLive ==
  /\ pc = "save_live_domains"
  /\ \/ /\ \E prior \in PriorFiles :
             file' = WriteLines(OpenW(prior), sorted(live_domains))
        /\ pc' = "done"
        /\ UNCHANGED error
     \/ /\ error' = "OSError"
        /\ pc' = "aborted"
        /\ UNCHANGED file
  /\ UNCHANGED <<task, hist, slept, next, subdomains, afterFind,
                 crt, crtHist, crtSlept, live_domains, probe>>

(* ---------------- properties ---------------- *)

AllKind(h, kinds) == \A i \in DOMAIN h : h[i].kind \in kinds

AllExc(h) == \A i \in DOMAIN h : h[i] = "exc"

EarlyStop ==
  /\ \A t \in TaskIds : \A k \in DOMAIN hist[t] :
       hist[t][k].kind = "lines"
         => /\ k = Len(hist[t])
            /\ task[t].pc = "done"
            /\ task[t].result = hist[t][k].lines
            /\ Len(slept[t]) = k - 1
  /\ \A k \in DOMAIN crtHist :
       crtHist[k] = "records"
         => /\ k = Len(crtHist)
            /\ crt.pc = "done"
            /\ crt.result = subdomains
            /\ Len(crtSlept) = k - 1

\* the three tools succeed on their first, second and third attempt
EarlyStopWitness ==
  /\ \A t \in TaskIds : task[t].pc = "done" /\ Len(hist[t]) = t
                        /\ hist[t][t].kind = "lines"
  /\ Len(slept[3]) = 2

\* C3: a tool that exits with status 0 and writes nothing counts as a
\* failed attempt: a wrapper all of whose attempts were empty or failed
\* has made MAX_RETRIES attempts and returns the empty list.
EmptyOutputIsFailure ==
  \A t \in TaskIds :
    (task[t].pc = "done" /\ AllKind(hist[t], {"nonzero", "empty"}))
      => (Len(hist[t]) = MAX_RETRIES /\ task[t].result = <<>>)

AllMerged == pc = "merge" /\ next = Len(Tools) + 1

Exhausted(t) ==
  /\ Len(hist[t]) = MAX_RETRIES
  /\ AllKind(hist[t], {"nonzero"})

\* C4: when one tool fails on all its attempts and the other two return
\* results, subdomains at the end of find_subdomains is the union of the
\* lines of those two results.
PartialFailureIsolation ==
  AllMerged =>
    \A t \in TaskIds :
      (Exhausted(t) /\ \A u \in TaskIds \ {t} : task[u].result # <<>>)
        => subdomains = UNION {Range(task[u].result) : u \in TaskIds \ {t}}

\* the first tool is exhausted, the other two returned different names
PartialFailureWitness ==
  /\ AllMerged
  /\ Exhausted(1)
  /\ task[2].result = << <<"a">> >>
  /\ task[3].result = << <<"a", "a">> >>
  /\ Len(hist[2]) = 1
  /\ subdomains = {<<"a">>, <<"a", "a">>}

Pending(t) == task[t].pc \in {"run", "sleep"}

DiscoveryState == <<task, hist, slept, next, subdomains, afterFind,
                    crt, crtHist, crtSlept>>

\* C5: a crt.sh request is made only when no tool task has an attempt or a
\* wait pending; httpx is invoked only after query_crtsh has returned; the
\* file is written only after httpx has returned; once httpx has been
\* invoked no discovery step happens, and its input is the final subdomains.
PhaseOrdering ==
  /\ [](/\ (crt.pc # "idle" \/ crtHist # <<>>) => \A t \in TaskIds : ~Pending(t)
        /\ (probe.calls > 0 \/ pc = "check_live_domains")
             => (crt.pc = "done" /\ next = Len(Tools) + 1)
        /\ file # NoFile => (probe.calls > 0 /\ pc = "done")
        /\ probe.calls > 0 => probe.input = subdomains)
  /\ [][/\ crtHist' # crtHist => \A t \in TaskIds : ~Pending(t)
        /\ probe.calls > 0 => UNCHANGED DiscoveryState]_vars

\* the file has been written after a run in which every phase did something
PhaseOrderingWitness ==
  /\ pc = "done"
  /\ file # NoFile /\ file # <<>>
  /\ probe.calls = 1
  /\ Len(crtHist) = 2
  /\ afterFind # {}
  /\ subdomains # afterFind

\* C6: during the fan-out every change of subdomains is one merge by the
\* main thread of the result of a task that has completed; a step of a
\* worker (an attempt or a wait) leaves subdomains alone, and the main
\* thread moves to the next result only when the task has completed.
RaceFreedom ==
  [][/\ (pc = "merge" /\ (hist' # hist \/ slept' # slept))
          => subdomains' = subdomains
     /\ (pc = "merge" /\ subdomains' # subdomains)
          => /\ next \in TaskIds
             /\ next' = next + 1
             /\ UNCHANGED <<task, hist, slept>>
     /\ next' # next
          => /\ task[next].pc = "done"
             /\ subdomains' = subdomains \cup Range(task[next].result)]_vars

\* the first result has been merged while the other two tasks still run
RaceFreedomWitness ==
  /\ pc = "merge"
  /\ next = 2
  /\ subdomains # {}
  /\ task[2].pc = "sleep"
  /\ task[3].pc = "run"

\* C7: at the end of find_subdomains, subdomains is the union of the lines
\* of the three returned results, whatever the order in which the tasks
\* ran and completed; merging a result whose lines are all in subdomains
\* leaves subdomains unchanged.
OrderIndependence ==
  /\ [](AllMerged =>
          subdomains = UNION {Range(task[t].result) : t \in TaskIds})
  /\ [][(next' # next /\ Range(task[next].result) \subseteq subdomains)
          => subdomains' = subdomains]_vars

\* the tools needed 3, 2 and 1 attempts, and two returned the same name
OrderIndependenceWitness ==
  /\ AllMerged
  /\ Len(hist[1]) = 3 /\ Len(hist[2]) = 2 /\ Len(hist[3]) = 1
  /\ task[1].result = << <<"a">> >>
  /\ task[2].result = << <<"a">>, <<"a">> >>
  /\ task[3].result = << <<"a", "a">> >>

\* C8: httpx is invoked at most once, and exactly once before
\* save_live_domains; when it exits with nonzero status live_domains is
\* empty and the run goes on to save_live_domains.
SingleShotProbe ==
  /\ probe.calls <= 1
  /\ pc \in {"save_live_domains", "done"} => probe.calls = 1
  /\ probe.calls = 1 => probe.input = subdomains
  /\ (probe.calls = 1 /\ probe.rc # 0)
       => /\ live_domains = {}
          /\ pc \in {"save_live_domains", "done", "aborted"}
          /\ error \in {"none", "OSError"}
          /\ file \in {NoFile, <<>>}

\* httpx failed on a non-empty input and the empty file was written
SingleShotProbeWitness ==
  /\ pc = "done"
  /\ probe.calls = 1 /\ probe.rc # 0
  /\ subdomains # {}
  /\ file = <<>>

\* C9: when every crt.sh request raised RequestException, subdomains is
\* what find_subdomains left, query_crtsh returns the empty set, and the
\* run goes on to check_live_domains.
CrtExhaustionFrame ==
  /\ (pc \notin {"find_subdomains", "merge"} /\ AllExc(crtHist))
       => subdomains = afterFind
  /\ (Len(crtHist) = MAX_RETRIES /\ AllExc(crtHist))
       => /\ crt.pc = "done"
          /\ crt.result = {}
          /\ pc \in {"check_live_domains", "save_live_domains", "done", "aborted"}
          /\ error \in {"none", "OSError"}

\* crt.sh exhausted after the tools found names, and httpx has been run
CrtExhaustionWitness ==
  /\ crtHist = <<"exc", "exc", "exc">>
  /\ afterFind = {<<"a">>, <<"a", "a">>}
  /\ probe.calls = 1
  /\ probe.input = afterFind

\* C10: a 2xx answer whose body is not JSON, or has a record without the
\* name field, does not abort the run: query_crtsh does not raise.
ParseFailureRecovered ==
  (\E i \in DOMAIN crtHist : crtHist[i] \in {"badjson", "nokey"})
    => (crt.pc # "raised" /\ pc # "aborted")

\* C11: a run ends abnormally only when the output file cannot be opened
\* or written: whatever the tools, crt.sh and httpx do, the only exception
\* that ends main() is the OSError of save_live_domains.
OnlyPersistenceAborts ==
  /\ pc = "aborted" => error = "OSError"
  /\ error # "none" => (pc = "aborted" /\ probe.calls = 1)

\* positions that delimit the pieces of a text: both ends and each newline
Cuts(s) == {0, Len(s) + 1} \cup {i \in 1..Len(s) : s[i] = "\n"}

\* the maximal newline-free segments of a text
Segments(s) ==
  {SubSeq(s, i + 1, j - 1) :
     <<i, j>> \in {c \in Cuts(s) \X Cuts(s) :
                     c[1] < c[2] /\ \A k \in Cuts(s) : ~(c[1] < k /\ k < c[2])}}

CrtSucceeded ==
  crtHist # <<>> /\ crtHist[Len(crtHist)] \in {"records", "norecords"}

\* C12: when httpx starts, subdomains is exactly the union of the lines of
\* the non-empty results the tool wrappers returned and, if the crt.sh
\* query succeeded, of the names its records split into at newlines; each
\* name occurs once (subdomains is a set) and no other name is present.
CandidateContent ==
  /\ []((pc = "check_live_domains" \/ probe.calls > 0)
          => /\ subdomains = afterFind \cup (IF CrtSucceeded THEN crt.names ELSE {})
             /\ probe.calls > 0 => probe.input = afterFind \cup
                                     (IF CrtSucceeded THEN crt.names ELSE {})
             /\ \A n \in crt.names : "\n" \notin Range(n))
  /\ [](pc = "find_subdomains"
          => \A s \in TextsUpTo(MaxName) : Range(SplitNL(s)) = Segments(s))
  /\ [][(pc = "merge" /\ pc' = "query_crtsh")
          => afterFind' = UNION {Range(task[t].result) :
                                   t \in {u \in TaskIds : task[u].result # <<>>}}]_vars

\* two tools and a two-line crt.sh record contributed, one name twice
CandidateContentWitness ==
  /\ probe.calls = 1
  /\ afterFind = {<<"a">>, <<"a", "a", "a">>}
  /\ crt.names = {<<"a">>, <<>>}
  /\ crtHist = <<"exc", "records">>
  /\ Cardinality(subdomains) = 3

CrtExhausted == Len(crtHist) = MAX_RETRIES /\ AllExc(crtHist)

Precedes(a, b) ==
  \E k \in 1..Len(b) :
    /\ k <= Len(a) + 1
    /\ \A i \in 1..(k - 1) : a[i] = b[i]
    /\ (k = Len(a) + 1 \/ Ord(a[k]) < Ord(b[k]))

\* C14: the lines of the file save_live_domains wrote are the elements of
\* live_domains, each once and nothing else, in strictly increasing
\* lexicographic order, whatever the file held before.
PersistedOutput ==
  file # NoFile =>
    LET lines == SplitLines(file)
    IN /\ Range(lines) = live_domains
       /\ Len(lines) = Cardinality(live_domains)
       /\ \A i \in 1..(Len(lines) - 1) : Precedes(lines[i], lines[i + 1])
       /\ Len(file) = JoinLen(live_domains) + (IF live_domains = {} THEN 0 ELSE 1)

\* httpx printed an empty line and a name; both are in the file, in order
PersistedOutputWitness ==
  /\ pc = "done"
  /\ live_domains = {<<>>, <<"a">>}
  /\ file = <<"\n", "a", "\n">>

\* C15: waits happen only between attempts: a wrapper that has returned
\* has waited once less than it has attempted, so a wrapper that used up
\* its MAX_RETRIES attempts has waited MAX_RETRIES - 1 times and not after
\* its last failed attempt.
BackoffOnlyBetweenAttempts ==
  /\ \A t \in TaskIds :
       task[t].pc = "done" => Len(slept[t]) = Len(hist[t]) - 1
  /\ crt.pc = "done" => Len(crtSlept) = Len(crtHist) - 1

\* the waits 2^0, 2^1, 2^2 written out
PowersOfTwo == <<1, 2, 4>>

IsBackoffPrefix(w) ==
  /\ Len(w) <= Len(PowersOfTwo)
  /\ \A i \in DOMAIN w : w[i] = PowersOfTwo[i]
  /\ \A i, j \in DOMAIN w : i < j => w[i] < w[j]

\* C16: in run_tool_with_retries and in query_crtsh the wait after the
\* failed attempt with 0-based index i lasts 2^i (1, then 2, then 4), so
\* the waits of one task are strictly increasing; wait i+1 follows an
\* attempt with index i that has been made.
BackoffDuration ==
  /\ \A t \in TaskIds : IsBackoffPrefix(slept[t]) /\ Len(slept[t]) <= Len(hist[t])
  /\ IsBackoffPrefix(crtSlept) /\ Len(crtSlept) <= Len(crtHist)

\* one tool has waited after each of three failures, another after one
BackoffDurationWitness ==
  /\ pc = "merge"
  /\ slept[1] = <<1, 2, 4>>
  /\ slept[2] = <<1>>
  /\ task[2].pc = "run"
  /\ slept[3] = <<1, 2>>

\* the number of attempts that a sequence of outcomes of one tool allows:
\* up to the first truthy result, and MAX_RETRIES at most
OwnBudget(h) ==
  /\ 1 <= Len(h) /\ Len(h) <= MAX_RETRIES
  /\ \A i \in 1..(Len(h) - 1) : h[i].lines = <<>>
  /\ h[Len(h)].lines # <<>> \/ Len(h) = MAX_RETRIES

TaskState(t) == <<task[t], hist[t], slept[t]>>

\* C17: every tool makes between 1 and MAX_RETRIES attempts, as many as
\* its own outcomes determine, and its loop counter counts its own
\* attempts; a step of one worker changes neither the counter, the
\* attempts nor the waits of another worker or of query_crtsh.
PerTaskBudget ==
  /\ [](\A t \in TaskIds :
          /\ Len(hist[t]) <= MAX_RETRIES
          /\ task[t].pc = "done" => OwnBudget(hist[t])
          /\ task[t].pc = "run" => Len(hist[t]) = task[t].attempt
          /\ task[t].pc = "sleep" => Len(hist[t]) = task[t].attempt + 1)
  /\ [][(pc = "merge" /\ pc' = "merge")
          => \A t \in TaskIds :
               TaskState(t)' # TaskState(t)
                 => /\ \A u \in TaskIds \ {t} : TaskState(u)' = TaskState(u)
                    /\ UNCHANGED <<crt, crtHist, crtSlept>>]_vars
  /\ [][(crt' # crt \/ crtHist' # crtHist \/ crtSlept' # crtSlept)
          => (pc = "merge" \/ UNCHANGED <<task, hist, slept>>)]_vars

\* the three workers are at different points of their own loops
PerTaskBudgetWitness ==
  /\ pc = "merge"
  /\ task[1].pc = "run" /\ task[1].attempt = 2
  /\ task[2].pc = "done" /\ Len(hist[2]) = 1
  /\ task[3].pc = "sleep" /\ task[3].attempt = 0

\* C18: subdomains is empty when the run starts, and no step of the run (a
\* merge, a crt.sh attempt, the httpx run, the write) removes a name from it.
MonotoneCandidates ==
  /\ subdomains = {}
  /\ [][subdomains \subseteq subdomains']_vars

\* names were added by two merges and by query_crtsh, and the run is over
MonotoneCandidatesWitness ==
  /\ pc = "done"
  /\ afterFind = {<<>>, <<"a", "a">>}
  /\ subdomains = {<<>>, <<"a">>, <<"a", "a">>}
  /\ CrtSucceeded

\* C19: no list returned by run_command has an empty line, whatever the
\* exit status and the output, so the merges of find_subdomains never put
\* the empty string into subdomains.
NoEmptyNames ==
  /\ \A t \in TaskIds : \A i \in DOMAIN hist[t] :
       <<>> \notin Range(hist[t][i].lines)
  /\ pc = "merge" => <<>> \notin subdomains
  /\ <<>> \notin afterFind

\* C20 as stated: a 2xx response with zero records is a failed attempt:
\* when query_crtsh has returned and each of its requests either raised or
\* brought no record, it has made MAX_RETRIES attempts, waited between
\* them, and returned the empty set.
EmptyResponseIsFailure ==
  (crt.pc = "done" /\ \A k \in DOMAIN crtHist : crtHist[k] \in {"exc", "norecords"})
    => /\ Len(crtHist) = MAX_RETRIES
       /\ Len(crtSlept) = MAX_RETRIES - 1
       /\ crt.result = {}

\* C20, amended: a 2xx response with zero records ends query_crtsh at
\* once: the attempt that brought it is the last one, no wait follows it,
\* no name is added, and self.subdomains is returned as find_subdomains
\* left it; the run goes on to check_live_domains.
EmptyResponseReturns ==
  \A k \in DOMAIN crtHist :
    crtHist[k] = "norecords"
      => /\ k = Len(crtHist)
         /\ crt.pc = "done"
         /\ Len(crtSlept) = k - 1
         /\ crt.names = {}
         /\ subdomains = afterFind
         /\ crt.result = afterFind
         /\ pc \in {"check_live_domains", "save_live_domains", "done", "aborted"}
         /\ error \in {"none", "OSError"}

\* the second request brought an empty list and httpx has run on what the
\* tools found
EmptyResponseWitness ==
  /\ crtHist = <<"exc", "norecords">>
  /\ crtSlept = <<1>>
  /\ afterFind = {<<"a">>}
  /\ probe.calls = 1
  /\ probe.input = {<<"a">>}

Next ==
  \/ Submit
  \/ \E t \in TaskIds : ToolAttempt(t)
  \/ \E t \in TaskIds : ToolSleep(t)
  \/ Merge
  \/ FindReturn
  \/ CrtAttempt
  \/ CrtSleep
  \/ CheckLive
  \/ SaveLive

Spec == Init /\ [][Next]_vars

====
